---- MODULE Spec2Model ----
(***************************************************************************)
(* loudgain 0.2.1: the command line driver (src/loudgain.c, main).         *)
(*                                                                         *)
(* main parses the options, scans every file, and then walks the files a   *)
(* second time: it fetches the track result, optionally the album result,  *)
(* runs the clip guard, dispatches to the tag writers, prints the report   *)
(* and the clipping warning, and frees the result.                         *)
(*                                                                         *)
(* Numbers.  Gains (dB) and peaks (linear amplitude) are doubles in the    *)
(* code.  Here they are fixed point with three decimals: the integer n     *)
(* stands for n / One.  All values the model draws are exact in this       *)
(* representation, and so are the reciprocals 1/peak the clip guard        *)
(* stores.                                                                 *)
(***************************************************************************)
EXTENDS Integers, Sequences, FiniteSets

\* Bounds of the model.
MaxOpts == 2
MaxFiles == 2

\* The literal 1.f / 1.0 of the clip guard, in fixed point.
One == 1000

VARIABLES
  pc,            \* position in main: parse, scan, loop, or how the process ended
  nopts,         \* options getopt_long has returned so far
  mode,          \* char mode
  pre_gain,      \* double pre_gain, as strtod left it
  no_clip,
  warn_clip,
  do_album,
  tab_output,
  quiet,         \* the global the -q option sets
  nb_files,
  i,             \* the loop variable (index relative to optind)
  scan,          \* the scan_result of the latest loop iteration, as it was freed
  orig,          \* the same result as the scan functions produced it
  will_clip,     \* bool will_clip of the latest loop iteration
  events,        \* what the latest loop iteration did to its result, in order
  out,           \* stdout: the report entries printed so far
  visited,       \* files the second loop has reached
  produced,      \* files whose scan_get_track_result was not NULL
  init_called,   \* scan_init was called
  scanned,       \* number of scan_file calls
  album_calls,   \* number of scan_set_album_result calls
  deinit_called, \* scan_deinit was called
  bad_dbgain,    \* some --db-gain value seen so far was malformed
  exit_status    \* -1 while running

vars == <<pc, nopts, mode, pre_gain, no_clip, warn_clip, do_album, tab_output,
          quiet, nb_files, i, scan, orig, will_clip, events, out, visited,
          produced, init_called, scanned, album_calls, deinit_called,
          bad_dbgain, exit_status>>

(***************************************************************************)
(* Inputs                                                                  *)
(***************************************************************************)

\* Characters of a --db-gain argument: a digit, a character that is no part
\* of a number, and the words strtod reads as infinity and as not-a-number.
Chars == {"1", "x", "inf", "nan"}

DbGainArgs == {<<>>} \cup {<<a>> : a \in Chars} \cup {<<"1", "x">>, <<"x", "1">>}

\* First characters of a --tag-mode argument ("x": anything else).
TagModes == {"c", "d", "i", "a", "v", "s", "r", "x"}

Codecs == {"MP3", "FLAC", "VORBIS", "AAC"}

\* Track gains (1 dB, 3 dB) and peaks (0.5, 1.0).
Gains == {1000, 3000}
Peaks == {500, 1000}

NULL == [file |-> -1, codec_id |-> "NULL", track_gain |-> 0, track_peak |-> 0, album_gain |-> 0, album_peak |-> 0]

\* What scan_get_track_result(f, pre_gain) may return: NULL, or a result
\* carrying the track's gain and peak and no album contribution yet.
TrackResults(f) ==
  {NULL} \cup
  {[file |-> f, codec_id |-> c, track_gain |-> g, track_peak |-> p, album_gain |-> 0, album_peak |-> 0] :
     c \in Codecs, g \in Gains, p \in Peaks}

\* What scan_set_album_result(scan, pre_gain) may store into scan: the album
\* peak is the maximum over the tracks, so it is at least this track's peak;
\* the album of a single file is that file.
AlbumResults(s, n) ==
  IF n = 1
  THEN {<<s.track_gain, s.track_peak>>}
  ELSE {<<g, p>> : g \in Gains, p \in {q \in Peaks : q >= s.track_peak}}

(***************************************************************************)
(* Option parsing                                                          *)
(***************************************************************************)

\* The length of the longest prefix of s that strtod reads as digits.
RECURSIVE DigitPrefix(_)
DigitPrefix(s) ==
  IF s = <<>> \/ Head(s) # "1" THEN 0 ELSE 1 + DigitPrefix(Tail(s))

\* The value of a run of n digits "1".
RECURSIVE DecimalValue(_)
DecimalValue(n) ==
  IF n = 0 THEN 0 ELSE 10 * DecimalValue(n - 1) + 1

\* strtod(optarg, &rest): the class and value of the number read, and how
\* many characters were consumed (rest - optarg).
strtod(optarg) ==
  IF optarg # <<>> /\ Head(optarg) \in {"inf", "nan"}
  THEN [class |-> Head(optarg), value |-> 0, consumed |-> 1]
  ELSE [class |-> "finite",
        value |-> One * DecimalValue(DigitPrefix(optarg)),
        consumed |-> DigitPrefix(optarg)]

isfinite(x) == x.class = "finite"

InvalidDbGain_NoRestCheck(r) == ~isfinite(r)

\* if (!rest || (rest == optarg) || !isfinite(pre_gain))
InvalidDbGain(r) == (r.consumed = 0) \/ ~isfinite(r)

\* fail_printf: prints the message and ends the process with a failure status.
fail_printf == [pc |-> "failed", exit_status |-> 1]

\* "no digits consumed or a non-finite number", read off the argument itself.
Malformed(optarg) == optarg = <<>> \/ Head(optarg) # "1"

ParseUnchanged ==
  UNCHANGED <<nb_files, i, scan, orig, will_clip, events, out, visited, produced,
              init_called, scanned, album_calls, deinit_called>>

CanParse == pc = "parse" /\ nopts < MaxOpts

OptTrack ==
  /\ CanParse
  /\ nopts' = nopts + 1
  /\ UNCHANGED <<pc, mode, pre_gain, no_clip, warn_clip, do_album, tab_output, quiet, bad_dbgain, exit_status>>
  /\ ParseUnchanged

OptAlbum ==
  /\ CanParse
  /\ nopts' = nopts + 1
  /\ do_album' = TRUE
  /\ UNCHANGED <<pc, mode, pre_gain, no_clip, warn_clip, tab_output, quiet, bad_dbgain, exit_status>>
  /\ ParseUnchanged

OptClip ==
  /\ CanParse
  /\ nopts' = nopts + 1
  /\ warn_clip' = FALSE
  /\ UNCHANGED <<pc, mode, pre_gain, no_clip, do_album, tab_output, quiet, bad_dbgain, exit_status>>
  /\ ParseUnchanged

OptNoClip ==
  /\ CanParse
  /\ nopts' = nopts + 1
  /\ no_clip' = TRUE
  /\ UNCHANGED <<pc, mode, pre_gain, warn_clip, do_album, tab_output, quiet, bad_dbgain, exit_status>>
  /\ ParseUnchanged

OptDbGain ==
  /\ CanParse
  /\ nopts' = nopts + 1
  /\ \E optarg \in DbGainArgs :
       LET r == strtod(optarg) IN
       /\ pre_gain' = [class |-> r.class, value |-> r.value]
       /\ bad_dbgain' = (bad_dbgain \/ Malformed(optarg))
       /\ IF InvalidDbGain(r)
          THEN pc' = fail_printf.pc /\ exit_status' = fail_printf.exit_status
          ELSE UNCHANGED <<pc, exit_status>>
  /\ UNCHANGED <<mode, no_clip, warn_clip, do_album, tab_output, quiet>>
  /\ ParseUnchanged

OptOutput ==
  /\ CanParse
  /\ nopts' = nopts + 1
  /\ tab_output' = TRUE
  /\ UNCHANGED <<pc, mode, pre_gain, no_clip, warn_clip, do_album, quiet, bad_dbgain, exit_status>>
  /\ ParseUnchanged

OptQuiet ==
  /\ CanParse
  /\ nopts' = nopts + 1
  /\ quiet' = 1
  /\ UNCHANGED <<pc, mode, pre_gain, no_clip, warn_clip, do_album, tab_output, bad_dbgain, exit_status>>
  /\ ParseUnchanged

OptTagMode ==
  /\ CanParse
  /\ nopts' = nopts + 1
  /\ \E c \in TagModes : mode' = c
  /\ UNCHANGED <<pc, pre_gain, no_clip, warn_clip, do_album, tab_output, quiet, bad_dbgain, exit_status>>
  /\ ParseUnchanged

\* case '?': case 'h': help(); return 0;
OptHelp ==
  /\ CanParse
  /\ nopts' = nopts + 1
  /\ pc' = "help"
  /\ exit_status' = 0
  /\ UNCHANGED <<mode, pre_gain, no_clip, warn_clip, do_album, tab_output, quiet, bad_dbgain>>
  /\ ParseUnchanged

\* case 'V': version(); return 0;
OptVersion ==
  /\ CanParse
  /\ nopts' = nopts + 1
  /\ pc' = "version"
  /\ exit_status' = 0
  /\ UNCHANGED <<mode, pre_gain, no_clip, warn_clip, do_album, tab_output, quiet, bad_dbgain>>
  /\ ParseUnchanged

ConfigUnchanged ==
  UNCHANGED <<nopts, mode, pre_gain, no_clip, warn_clip, do_album, tab_output, quiet, bad_dbgain>>

\* getopt_long returns -1; nb_files = argc - optind; scan_init(nb_files).
EndOfOptions ==
  /\ pc = "parse"
  /\ \E n \in 0..MaxFiles : nb_files' = n
  /\ init_called' = TRUE
  /\ pc' = "scan"
  /\ i' = 0
  /\ ConfigUnchanged
  /\ UNCHANGED <<scan, orig, will_clip, events, out, visited, produced, scanned,
                 album_calls, deinit_called, exit_status>>

(***************************************************************************)
(* The first loop: scan_file for every file                                *)
(***************************************************************************)

ScanFile ==
  /\ pc = "scan"
  /\ i < nb_files
  /\ scanned' = scanned + 1
  /\ i' = i + 1
  /\ ConfigUnchanged
  /\ UNCHANGED <<pc, nb_files, scan, orig, will_clip, events, out, visited, produced,
                 init_called, album_calls, deinit_called, exit_status>>

ScanLoopDone_Early == i >= nb_files - 1

\* The first loop's exit test, !(i < argc).
ScanLoopDone == i >= nb_files

\* The first loop ends; the header of the tab-delimited report is printed.
PrintHeader ==
  /\ pc = "scan"
  /\ ScanLoopDone
  /\ out' = IF tab_output THEN Append(out, [kind |-> "header", file |-> -1]) ELSE out
  /\ pc' = "loop"
  /\ i' = 0
  /\ ConfigUnchanged
  /\ UNCHANGED <<nb_files, scan, orig, will_clip, events, visited, produced,
                 init_called, scanned, album_calls, deinit_called, exit_status>>

(***************************************************************************)
(* The second loop: one iteration per file                                 *)
(***************************************************************************)

\* An event of a loop iteration: what was done, and the gains the result
\* held at that moment.
Ev(op, s) == [op |-> op, codec_id |-> s.codec_id, track_gain |-> s.track_gain, album_gain |-> s.album_gain]

\* err_printf: prints the message and returns.
err_printf(msg, s) == <<Ev(msg, s)>>

\* gain > (1.f / peak).  A peak of 0 gives 1/peak = +infinity.
GainExceeds(gain, peak) == peak > 0 /\ gain * peak > One * One

FFMIN(a, b) == IF a > b THEN b ELSE a

\* FFMIN(gain, 1.0 / peak)
ClampGain(gain, peak) ==
  IF peak = 0 THEN gain ELSE FFMIN(gain, (One * One) \div peak)

\* The test that sets will_clip.
WillClip(s) ==
  \/ GainExceeds(s.track_gain, s.track_peak)
  \/ GainExceeds(s.album_gain, s.album_peak)

ClipGuard_KeepFlag(s, noclip) ==
  LET clip == WillClip(s)
      s1 == [s EXCEPT !.track_gain = ClampGain(s.track_gain, s.track_peak)]
      s2 == [s1 EXCEPT !.album_gain = ClampGain(s.album_gain, s.album_peak)]
  IN  IF clip /\ noclip
      THEN [scan |-> s2, will_clip |-> TRUE,
            events |-> <<Ev("set_track_gain", s1), Ev("set_album_gain", s2)>>]
      ELSE [scan |-> s, will_clip |-> clip, events |-> <<>>]

\* The clip guard: detect, and with --noclip clamp both gains in the result
\* and clear the flag.
ClipGuard(s, noclip) ==
  LET clip == WillClip(s)
      s1 == [s EXCEPT !.track_gain = ClampGain(s.track_gain, s.track_peak)]
      s2 == [s1 EXCEPT !.album_gain = ClampGain(s.album_gain, s.album_peak)]
  IN  IF clip /\ noclip
      THEN [scan |-> s2, will_clip |-> FALSE,
            events |-> <<Ev("set_track_gain", s1), Ev("set_album_gain", s2)>>]
      ELSE [scan |-> s, will_clip |-> clip, events |-> <<>>]

Taggable == {"MP3", "FLAC", "VORBIS"}

\* switch (mode): the tag writer calls and error messages for one result.
TagDispatch(m, s) ==
  CASE m = "d" -> IF s.codec_id \in Taggable
                  THEN <<Ev("tag_clear", s)>>
                  ELSE err_printf("err_file_type", s)
    [] m = "i" -> IF s.codec_id \in Taggable
                  THEN <<Ev("tag_clear", s), Ev("tag_write", s)>>
                  ELSE err_printf("err_file_type", s)
    [] m = "a" -> err_printf("err_apev2", s)
    [] m = "v" -> err_printf("err_vorbis_comment", s)
    [] m \in {"c", "s", "r"} -> <<>>
    [] OTHER -> err_printf("err_tag_mode", s)

\* The report of one result, tab-delimited or human-readable: the track, and
\* in the iteration of the last file the album.
Report(s, idx) ==
  <<Ev("print_track", s)>> \o
  (IF idx = nb_files - 1 /\ do_album THEN <<Ev("print_album", s)>> ELSE <<>>)

\* if (warn_clip && will_clip) err_printf("The track will clip");
Warn(s, clip) == IF warn_clip /\ clip THEN err_printf("warn_clip", s) ELSE <<>>

LoopBody_GuardAfterTags(s, idx) ==
  LET g == ClipGuard(s, no_clip)
  IN  [scan |-> g.scan, will_clip |-> g.will_clip,
       events |-> TagDispatch(mode, s) \o g.events \o Report(g.scan, idx)
                  \o Warn(g.scan, g.will_clip) \o <<Ev("free", g.scan)>>]

LoopBody_NoTagsOnClip(s, idx) ==
  LET g == ClipGuard(s, no_clip)
  IN  [scan |-> g.scan, will_clip |-> g.will_clip,
       events |-> g.events \o (IF g.will_clip THEN <<>> ELSE TagDispatch(mode, g.scan))
                  \o Report(g.scan, idx)
                  \o Warn(g.scan, g.will_clip) \o <<Ev("free", g.scan)>>]

\* One iteration on a result that is not NULL, from the clip guard to free.
LoopBody(s, idx) ==
  LET g == ClipGuard(s, no_clip)
  IN  [scan |-> g.scan, will_clip |-> g.will_clip,
       events |-> g.events \o TagDispatch(mode, g.scan) \o Report(g.scan, idx)
                  \o Warn(g.scan, g.will_clip) \o <<Ev("free", g.scan)>>]

\* The report entries among the events of an iteration.
RECURSIVE Rows(_, _)
Rows(evs, f) ==
  IF evs = <<>> THEN <<>>
  ELSE (CASE Head(evs).op = "print_track" -> <<[kind |-> "track", file |-> f]>>
          [] Head(evs).op = "print_album" -> <<[kind |-> "album", file |-> -1]>>
          [] OTHER -> <<>>) \o Rows(Tail(evs), f)

AfterNull_Break(idx) == nb_files

\* if (scan == NULL) continue;
AfterNull(idx) == idx + 1

LoopIter ==
  /\ pc = "loop"
  /\ i < nb_files
  /\ visited' = visited \cup {i}
  /\ \E r \in TrackResults(i) :
       IF r = NULL
       THEN /\ scan' = NULL
            /\ orig' = NULL
            /\ will_clip' = FALSE
            /\ events' = <<>>
            /\ i' = AfterNull(i)
            /\ UNCHANGED <<out, produced, album_calls>>
       ELSE \E a \in (IF do_album THEN AlbumResults(r, nb_files) ELSE {<<r.album_gain, r.album_peak>>}) :
              LET s == [r EXCEPT !.album_gain = a[1], !.album_peak = a[2]]
                  b == LoopBody(s, i)
              IN  /\ orig' = s
                  /\ scan' = b.scan
                  /\ will_clip' = b.will_clip
                  /\ events' = b.events
                  /\ out' = out \o Rows(b.events, i)
                  /\ produced' = produced \cup {i}
                  /\ album_calls' = IF do_album THEN album_calls + 1 ELSE album_calls
                  /\ i' = i + 1
  /\ ConfigUnchanged
  /\ UNCHANGED <<pc, nb_files, init_called, scanned, deinit_called, exit_status>>

\* The second loop ends: scan_deinit(); return 0;
Finish ==
  /\ pc = "loop"
  /\ i >= nb_files
  /\ deinit_called' = TRUE
  /\ pc' = "done"
  /\ exit_status' = 0
  /\ ConfigUnchanged
  /\ UNCHANGED <<nb_files, i, scan, orig, will_clip, events, out, visited, produced,
                 init_called, scanned, album_calls>>

Init ==
  /\ pc = "parse"
  /\ nopts = 0
  /\ mode = "s"
  /\ pre_gain = [class |-> "finite", value |-> 0]
  /\ no_clip = FALSE
  /\ warn_clip = TRUE
  /\ do_album = FALSE
  /\ tab_output = FALSE
  /\ quiet = 0
  /\ nb_files = 0
  /\ i = 0
  /\ scan = NULL
  /\ orig = NULL
  /\ will_clip = FALSE
  /\ events = <<>>
  /\ out = <<>>
  /\ visited = {}
  /\ produced = {}
  /\ init_called = FALSE
  /\ scanned = 0
  /\ album_calls = 0
  /\ deinit_called = FALSE
  /\ bad_dbgain = FALSE
  /\ exit_status = -1

Next ==
  \/ OptTrack
  \/ OptAlbum
  \/ OptClip
  \/ OptNoClip
  \/ OptDbGain
  \/ OptOutput
  \/ OptQuiet
  \/ OptTagMode
  \/ OptHelp
  \/ OptVersion
  \/ EndOfOptions
  \/ ScanFile
  \/ PrintHeader
  \/ LoopIter
  \/ Finish

Spec == Init /\ [][Next]_vars

(***************************************************************************)
(* Properties                                                              *)
(***************************************************************************)

\* -20 * log10(peak), the gain (dB) at which peak * 10^(gain/20) is exactly
\* 1.0, rounded down to the third decimal: 6.0206 dB for a peak of 0.5 and
\* 0 dB for a peak of 1.0.
HeadroomDb(peak) ==
  CASE peak = 500 -> 6020
    [] peak = 1000 -> 0

\* predicted_peak = peak * 10^(gain/20) > 1.0.  A peak of 0 predicts 0.
PredictedClip(gain, peak) == peak > 0 /\ gain > HeadroomDb(peak)

\* gain = -20 * log10(peak) within a hundredth of a dB.
AtFullScale(gain, peak) ==
  /\ gain >= HeadroomDb(peak) - 10
  /\ gain <= HeadroomDb(peak) + 1 + 10

\* The latest loop iteration had a result.
HasResult == scan # NULL

HasOp(evs, ops) == \E k \in 1..Len(evs) : evs[k].op \in ops

TagOps == {"tag_clear", "tag_write"}
ReportOps == {"tag_clear", "tag_write", "print_track", "print_album"}
WriteOps == {"set_track_gain", "set_album_gain"}

TagCalls(evs) == SelectSeq(evs, LAMBDA e : e.op \in TagOps)

TrackRows(f) == Len(SelectSeq(out, LAMBDA e : e.kind = "track" /\ e.file = f))
AlbumRows == Len(SelectSeq(out, LAMBDA e : e.kind = "album"))

\* C1: with --noclip, a result whose predicted peak peak * 10^(gain/20)
\* exceeds 1.0 leaves the clip guard with a gain of -20*log10(peak), that is
\* with a predicted peak of 1.0 within tolerance, and with the will-clip flag
\* false; for the track gain and, with --album, for the album gain.
C1_ClampReachesFullScale ==
  (HasResult /\ no_clip) =>
    /\ PredictedClip(orig.track_gain, orig.track_peak) =>
         AtFullScale(scan.track_gain, scan.track_peak) /\ ~will_clip
    /\ PredictedClip(orig.album_gain, orig.album_peak) =>
         AtFullScale(scan.album_gain, scan.album_peak) /\ ~will_clip

\* C2: without --noclip the clip guard leaves both gains of a result as the
\* scan produced them, and the will-clip flag is set exactly when a predicted
\* peak peak * 10^(gain/20) of the result exceeds 1.0.
C2_WarnExactlyWhenClipping ==
  (HasResult /\ ~no_clip) =>
    /\ scan.track_gain = orig.track_gain
    /\ scan.album_gain = orig.album_gain
    /\ will_clip <=> (\/ PredictedClip(orig.track_gain, orig.track_peak)
                      \/ PredictedClip(orig.album_gain, orig.album_peak))

\* C3: the clip guard treats the two scopes independently: the will-clip
\* outcome and the gain of the track are those the guard gives the track's
\* gain and peak alone, whatever the album gain and peak are.
C3_ScopesIndependent ==
  HasResult =>
    LET alone == ClipGuard([orig EXCEPT !.album_gain = 0, !.album_peak = 0], no_clip)
    IN  /\ will_clip = alone.will_clip
        /\ scan.track_gain = alone.scan.track_gain

\* C4: a file without a result, or with a codec the tag mode cannot write,
\* does not stop the session: the loop reaches every file, and every file
\* with a result is clip-guarded, tag-dispatched and reported exactly once.
C4_FailuresIsolated ==
  /\ pc = "done" => visited = 0 .. (nb_files - 1)
  /\ \A f \in produced : TrackRows(f) = 1
  /\ HasResult =>
       /\ scan.file \in produced
       /\ scan = ClipGuard(orig, no_clip).scan
       /\ (mode \in {"d", "i"} /\ scan.codec_id \in Taggable) => HasOp(events, {"tag_clear"})
       /\ (mode \in {"d", "i"} /\ scan.codec_id \notin Taggable) => HasOp(events, {"err_file_type"})
       /\ HasOp(events, {"print_track"})

C4_Witness ==
  /\ pc = "done"
  /\ \E f \in visited \ produced : \E g \in produced : g > f
  /\ mode = "i"
  /\ scan.codec_id = "AAC"

\* C5: a malformed --db-gain value ends the process during option parsing,
\* before scan_init and before any scan_file; a run whose options parse ends
\* with exit status 0 whatever the files did.
C5_BadGainFatalElseZero ==
  /\ bad_dbgain => pc = "failed" /\ exit_status # 0
  /\ pc = "failed" => ~init_called /\ scanned = 0 /\ visited = {}
  /\ pc \in {"done", "help", "version"} => exit_status = 0
  /\ exit_status \notin {-1, 0} => pc = "failed"

C5_Witness == pc = "failed" /\ bad_dbgain /\ nopts = 2

\* C6: in a finished report every track with a result has exactly one entry
\* and, with --album, there is exactly one album entry and it comes last.
C6_OneEntryEach ==
  (pc = "done" /\ produced # {}) =>
    /\ \A f \in produced : TrackRows(f) = 1
    /\ do_album => AlbumRows = 1 /\ out[Len(out)].kind = "album"

\* C7 as stated: the clip guard works on a copy: the gains the scan produced
\* stay in the result, and nothing writes a gain of a result after it was
\* printed or handed to a tag writer.
C7_GuardWorksOnCopy ==
  HasResult =>
    /\ scan.track_gain = orig.track_gain
    /\ scan.album_gain = orig.album_gain
    /\ \A j, k \in 1..Len(events) :
         (j < k /\ events[j].op \in ReportOps) => events[k].op \notin WriteOps

\* C7 as amended: the clip guard overwrites the gains in the result itself,
\* but only before the result is printed or handed to a tag writer: no write
\* to track_gain or album_gain follows a print or a tag writer call, and what
\* is printed and written are the gains the result holds when it is freed.
C7_NoWriteAfterReport ==
  HasResult =>
    /\ \A j, k \in 1..Len(events) :
         (j < k /\ events[j].op \in ReportOps) => events[k].op \notin WriteOps
    /\ \A k \in 1..Len(events) :
         events[k].op \in ReportOps =>
           /\ events[k].track_gain = scan.track_gain
           /\ events[k].album_gain = scan.album_gain

C7_Witness ==
  /\ HasResult
  /\ scan.track_gain # orig.track_gain
  /\ HasOp(events, WriteOps)
  /\ HasOp(events, {"tag_write"})

\* C8: scan_set_album_result is called, and a result is used, only after
\* scan_file was called for every file; scan_deinit is called only after the
\* loop has reached every file and every result was reported.
C8_AlbumAfterAllScans ==
  /\ (album_calls > 0 \/ visited # {} \/ HasResult) => scanned = nb_files
  /\ scanned > 0 => init_called
  /\ deinit_called =>
       /\ visited = 0 .. (nb_files - 1)
       /\ \A f \in produced : TrackRows(f) = 1
       /\ pc = "done"

C8_Witness == album_calls > 1 /\ deinit_called /\ nb_files > 1

\* C9: the clip guard is idempotent: applied to its own output it returns the
\* same gains and the same will-clip flag, with and without --noclip.
C9_GuardIdempotent ==
  HasResult =>
    LET again == ClipGuard(scan, no_clip)
    IN  /\ again.scan = scan
        /\ again.will_clip = will_clip

C9_Witness ==
  /\ HasResult
  /\ no_clip
  /\ scan.track_gain # orig.track_gain
  /\ scan.album_gain # orig.album_gain

\* C10 as stated: the tag writer calls for a result depend on the tag mode
\* and the codec alone, never on the will-clip flag: none in skip mode, one
\* clear in delete mode, one clear and then one write of the gains the clip
\* guard left in write mode, for MP3, FLAC and Vorbis; any other codec gets, in
\* each of these modes, no tag writer call and an error message.
C10_OtherCodecAlwaysReported ==
  HasResult =>
    LET post == ClipGuard(orig, no_clip).scan
        calls == TagCalls(events)
    IN  /\ mode = "s" /\ scan.codec_id \in {"MP3", "FLAC", "VORBIS"} => calls = <<>>
        /\ (mode = "d" /\ scan.codec_id \in {"MP3", "FLAC", "VORBIS"}) =>
             calls = <<Ev("tag_clear", post)>>
        /\ (mode = "i" /\ scan.codec_id \in {"MP3", "FLAC", "VORBIS"}) =>
             calls = <<Ev("tag_clear", post), Ev("tag_write", post)>>
        /\ (mode \in {"s", "d", "i"} /\ scan.codec_id \notin {"MP3", "FLAC", "VORBIS"}) =>
             /\ calls = <<>>
             /\ Len(SelectSeq(events, LAMBDA e : e.op = "err_file_type")) = 1

\* C10 as amended: as above, but a codec other than MP3, FLAC and Vorbis gets
\* the error message in delete and write mode only; in skip mode it gets no
\* tag writer call and no message.
C10_TagCallsByModeAndCodec ==
  HasResult =>
    LET post == ClipGuard(orig, no_clip).scan
        calls == TagCalls(events)
        errors == Len(SelectSeq(events, LAMBDA e : e.op = "err_file_type"))
    IN  /\ mode = "s" => calls = <<>> /\ errors = 0
        /\ (mode = "d" /\ scan.codec_id \in {"MP3", "FLAC", "VORBIS"}) =>
             calls = <<Ev("tag_clear", post)>> /\ errors = 0
        /\ (mode = "i" /\ scan.codec_id \in {"MP3", "FLAC", "VORBIS"}) =>
             calls = <<Ev("tag_clear", post), Ev("tag_write", post)>> /\ errors = 0
        /\ scan.codec_id \notin {"MP3", "FLAC", "VORBIS"} =>
             /\ calls = <<>>
             /\ mode \in {"d", "i"} => errors = 1

C10_Witness ==
  /\ HasResult
  /\ mode = "i"
  /\ will_clip
  /\ HasOp(events, {"tag_write"})

====
